---- MODULE Spec2Model ----
(***************************************************************************)
(* A model of libprocon-rs: the lazily propagated SegmentTree              *)
(* (src/src/segment_tree.rs) and the range-add / range-sum FenwickTree     *)
(* (src/src/fenwick.rs).                                                   *)
(*                                                                         *)
(* One structure instance is constructed (Init) and then driven by its     *)
(* public calls.  Every call is one action: the whole recursive descent    *)
(* or the whole accumulator loop.  The private functions are operators     *)
(* that transform an execution record `t` holding the structure's fields   *)
(* together with what the call did: whether an index left its Vec (Rust    *)
(* panics there), whether the call ran out of fuel (it would not return),  *)
(* which slots it touched and which nodes it descended from.               *)
(***************************************************************************)
EXTENDS Integers, Sequences, FiniteSets, TLC

\* ------------------------------------------------------------------ bounds
\* Largest SegmentTree size that is constructed.
MaxSegSize == 2
\* Largest FenwickTree size that is constructed.
MaxFenSize == 3
\* Largest update value handed to update / add (add also takes -MaxVal..-1).
MaxVal == 2
\* Under "MaxAdd" and in the FenwickTree, a call that would make a
\* reference position exceed MaxSum in absolute value is not issued, so that
\* usize / i32 arithmetic stays far from overflow and the state space is
\* finite.
MaxSum == 1
\* Recursion depth after which a descent is declared divergent.
MaxDepth == 6
\* Loop iterations after which an accumulator loop is declared divergent.
MaxIter == 6
\* Width of usize in the model; every index of the model is below 2^WordBits.
WordBits == 4
\* How far beyond size an out-of-contract index may lie.
MaxOver == 1
\* Largest SegmentTree size of the run over sizes that are not powers of two.
MaxWideSize == 3
\* Largest number of elements of a DisjointSet.
MaxSetSize == 4
\* Largest number of vertices of a DirectedGraph.
MaxVertices == 3
\* Largest number of add_edge calls on one DirectedGraph.
MaxEdges == 3
\* Largest const parameter N of Mod<N>.
MaxMod == 10
\* Largest exponent handed to Mod::pow.
MaxExp == 4

VARIABLES
  kind,     \* "SegmentTree" or "FenwickTree": which structure was constructed
  alg,      \* the element type T the structure was instantiated with
  size,     \* SegmentTree.size / the length of both Fenwick accumulators /
            \* DisjointSet.parents.len() / DirectedGraph.n
  values,   \* SegmentTree.values, a Vec indexed from 0 (slot 0 is unused)
  thunks,   \* SegmentTree.thunks
  diff,     \* FenwickTree.diff.tree
  offset,   \* FenwickTree.offset.tree
  ref,      \* the O(N) reference array the calls are replayed against
  status,   \* "running", or how the call that ended the program ended
  parents,  \* DisjointSet.parents, None or Some(p) per element
  ranks,    \* DisjointSet.ranks
  adj,      \* DirectedGraph.adj, per vertex the Vec of its successors
  modulus,  \* the const parameter N of Mod<N>
  self_value, \* Mod.value
  build     \* whether the build checks integer overflow ("debug") or wraps

\* The fields of the structures other than the two range structures.
others == <<parents, ranks, adj, modulus, self_value, build>>

vars == <<kind, alg, size, values, thunks, diff, offset, ref, status, others>>

\* ----------------------------------------------------- element type of T
\* Two instances of SegmentTreeCompatible over usize:
\*   "MaxAdd"    the one of the repository's tests: range add, range max;
\*   "MaxAssign" range assign, range max, 0 meaning "no assignment"; its
\*               compose is not commutative.
Algs == {"MaxAdd", "MaxAssign"}

ident == 0

combine(a, l, r) == IF l >= r THEN l ELSE r

apply(a, l, r) ==
  IF a = "MaxAdd" THEN l + r
  ELSE IF r = 0 THEN l ELSE r

compose(a, l, r) ==
  IF a = "MaxAdd" THEN l + r
  ELSE IF r = 0 THEN l ELSE r

\* ------------------------------------------------------- TraversalState
length(s) == s.end - s.begin

is_leaf(s) == length(s) = 1

\* Faulty variant of is_disjoint: the comparisons of a closed interval.
is_disjoint_closed(s, begin, end) == s.begin > end \/ s.end < begin

is_disjoint(s, begin, end) == s.begin >= end \/ s.end <= begin

is_included(s, begin, end) == s.begin >= begin /\ s.end <= end

left_child(s) ==
  [idx |-> s.idx * 2, begin |-> s.begin, end |-> (s.begin + s.end) \div 2]

right_child(s) ==
  [idx |-> s.idx * 2 + 1, begin |-> (s.begin + s.end) \div 2, end |-> s.end]

\* ------------------------------------------------------------ SegmentTree
RECURSIVE Pow2AtLeast(_, _)
Pow2AtLeast(p, n) == IF p >= n THEN p ELSE Pow2AtLeast(2 * p, n)

\* Faulty variant of next_power_of_two: the size is not padded.
next_power_of_two_exact(n) == IF n = 0 THEN 1 ELSE n

\* usize::next_power_of_two: the smallest power of two >= n (1 for n = 0).
next_power_of_two(n) == Pow2AtLeast(1, n)

SegmentTree_new(n) ==
  LET tree_size == 2 * next_power_of_two(n)
  IN  [size   |-> n,
       values |-> [i \in 0..(tree_size - 1) |-> ident],
       thunks |-> [i \in 0..(tree_size - 1) |-> ident]]

root(t) == [idx |-> 1, begin |-> 0, end |-> t.size]

\* The execution record of a call on the structure self.
Exec(a, self) ==
  [alg |-> a, size |-> self.size, values |-> self.values,
   thunks |-> self.thunks, panic |-> FALSE, diverged |-> FALSE,
   acc |-> {}, desc |-> {}, inc |-> {}]

\* An indexing expression vec[i]: Rust panics when i is outside the Vec.
Touch(t, i) ==
  IF t.panic THEN t
  ELSE IF i \in DOMAIN t.values
       THEN [t EXCEPT !.acc = @ \cup {i}]
       ELSE [t EXCEPT !.acc = @ \cup {i}, !.panic = TRUE]

\* Faulty variant of ComposeThunk: the pending thunk is composed after the newer one.
ComposeThunkSwapped(t, i, u) ==
  LET t1 == Touch(t, i)
  IN  IF t1.panic THEN t1
      ELSE [t1 EXCEPT !.thunks[i] = compose(t.alg, u, @)]

\* self.thunks[i].compose_assign(u)
ComposeThunk(t, i, u) ==
  LET t1 == Touch(t, i)
  IN  IF t1.panic THEN t1
      ELSE [t1 EXCEPT !.thunks[i] = compose(t.alg, @, u)]

\* Faulty variant of push: the children's pending thunks are composed after the
\* pushed one.
push_older_last(t, s) ==
  LET t0 == Touch(t, s.idx)
  IN  IF t0.panic THEN t0
      ELSE
        LET thunk == t0.thunks[s.idx]
            t1 == [t0 EXCEPT !.values[s.idx] = apply(t.alg, @, thunk),
                             !.thunks[s.idx] = ident]
        IN  IF ~is_leaf(s)
            THEN ComposeThunkSwapped(
                   ComposeThunkSwapped(t1, left_child(s).idx, thunk),
                   right_child(s).idx, thunk)
            ELSE t1

\* Faulty variant of push: the pushed thunk is not reset to ident().
push_keeps_thunk(t, s) ==
  LET t0 == Touch(t, s.idx)
  IN  IF t0.panic THEN t0
      ELSE
        LET thunk == t0.thunks[s.idx]
            t1 == [t0 EXCEPT !.values[s.idx] = apply(t.alg, @, thunk)]
        IN  IF ~is_leaf(s)
            THEN ComposeThunk(ComposeThunk(t1, left_child(s).idx, thunk),
                              right_child(s).idx, thunk)
            ELSE t1

push(t, s) ==
  LET t0 == Touch(t, s.idx)
  IN  IF t0.panic THEN t0
      ELSE
        LET thunk == t0.thunks[s.idx]
            t1 == [t0 EXCEPT !.values[s.idx] = apply(t.alg, @, thunk),
                             !.thunks[s.idx] = ident]
        IN  IF ~is_leaf(s)
            THEN ComposeThunk(ComposeThunk(t1, left_child(s).idx, thunk),
                              right_child(s).idx, thunk)
            ELSE t1

\* self.values[i] = self.values[l].combine(self.values[r])
Recompute(t, i, l, r) ==
  LET t1 == Touch(Touch(Touch(t, l), r), i)
  IN  IF t1.panic THEN t1
      ELSE [t1 EXCEPT !.values[i] = combine(t.alg, t1.values[l], t1.values[r])]

\* Faulty variant of Included: the update is composed into the thunk and the node is
\* not pushed.
Included_no_push(t, s, value) == ComposeThunk(t, s.idx, value)

\* The visit of _update to a node that lies fully inside the range:
\* self.thunks[state.idx].compose_assign(value); self.push(state)
Included(t, s, value) == push(ComposeThunk(t, s.idx, value), s)

\* The record t, with the arrays as the visit to the included node s found
\* them added to its log inc.
LogIncluded(t, s) ==
  [t EXCEPT !.inc = @ \cup {[s |-> s, values |-> t.values,
                              thunks |-> t.thunks]}]

RECURSIVE _update(_, _, _, _, _, _)
\* Faulty variant of _update: the node is pushed before it is tested for disjointness.
_update_push_first(t, begin, end, value, s, fuel) ==
  IF t.panic \/ t.diverged THEN t
  ELSE IF fuel = 0 THEN [t EXCEPT !.diverged = TRUE]
  ELSE LET t0 == push(t, s)
       IN  IF is_disjoint(s, begin, end) THEN t0
           ELSE IF is_included(s, begin, end)
                THEN Included(LogIncluded(t0, s), s, value)
           ELSE LET t1 == [t0 EXCEPT !.desc = @ \cup {s}]
                    left == left_child(s)
                    right == right_child(s)
                    t2 == _update(t1, begin, end, value, left, fuel - 1)
                    t3 == _update(t2, begin, end, value, right, fuel - 1)
                IN  IF t3.panic \/ t3.diverged THEN t3
                    ELSE Recompute(t3, s.idx, left.idx, right.idx)

_update(t, begin, end, value, s, fuel) ==
  IF t.panic \/ t.diverged THEN t
  ELSE IF fuel = 0 THEN [t EXCEPT !.diverged = TRUE]
  ELSE IF is_disjoint(s, begin, end) THEN t
  ELSE IF is_included(s, begin, end)
       THEN Included(LogIncluded(t, s), s, value)
  ELSE LET t1 == [push(t, s) EXCEPT !.desc = @ \cup {s}]
           left == left_child(s)
           right == right_child(s)
           t2 == _update(t1, begin, end, value, left, fuel - 1)
           t3 == _update(t2, begin, end, value, right, fuel - 1)
       IN  IF t3.panic \/ t3.diverged THEN t3
           ELSE Recompute(t3, s.idx, left.idx, right.idx)

update(t, begin, end, value) ==
  _update(t, begin, end, value, root(t), MaxDepth)

\* _query returns the execution record and the returned aggregate.
RECURSIVE _query(_, _, _, _, _)
_query(t, begin, end, s, fuel) ==
  IF t.panic \/ t.diverged THEN [t |-> t, ret |-> ident]
  ELSE IF fuel = 0 THEN [t |-> [t EXCEPT !.diverged = TRUE], ret |-> ident]
  ELSE IF is_disjoint(s, begin, end) THEN [t |-> t, ret |-> ident]
  ELSE LET t1 == push(t, s)
       IN  IF t1.panic THEN [t |-> t1, ret |-> ident]
           ELSE IF is_included(s, begin, end)
                THEN [t |-> t1, ret |-> t1.values[s.idx]]
           ELSE LET t2 == [t1 EXCEPT !.desc = @ \cup {s}]
                    l == _query(t2, begin, end, left_child(s), fuel - 1)
                    r == _query(l.t, begin, end, right_child(s), fuel - 1)
                IN  [t |-> r.t, ret |-> combine(t.alg, l.ret, r.ret)]

query(t, begin, end) == _query(t, begin, end, root(t), MaxDepth)

\* ------------------------------------------------ Sum<i32>: FenwickCompatible
zero == 0

neg(a) == 0 - a

\* Faulty variant of add: the slot is overwritten instead of accumulated.
add_overwrite(a, b) == b

add(a, b) == a + b

sub(a, b) == a - b

scale(n, a) == n * a

\* ------------------------------------------------- PrimitiveFenwickTree
RECURSIVE BitAnd(_, _, _)
BitAnd(x, y, bits) ==
  IF bits = 0 THEN 0
  ELSE (IF x % 2 = 1 /\ y % 2 = 1 THEN 1 ELSE 0)
       + 2 * BitAnd(x \div 2, y \div 2, bits - 1)

\* The number of values of a usize of WordBits bits.
WordMod == 2^WordBits

\* usize::wrapping_neg on a WordBits-bit word.
wrapping_neg(x) == (WordMod - x) % WordMod

\* idx & idx.wrapping_neg(), tabulated once for every word.
LowbitTable ==
  [x \in 0..(WordMod - 1) |-> BitAnd(x, wrapping_neg(x), WordBits)]

\* Faulty variant of lowbit: idx & !idx, which is 0 for every idx.
lowbit_not(idx) == BitAnd(idx, (WordMod - 1) - idx, WordBits)

lowbit(idx) == LowbitTable[idx]

\* self.tree.len()
VecLen(tree) == Cardinality(DOMAIN tree)

PrimitiveFenwickTree_new(n) == [i \in 0..(n - 1) |-> zero]

\* An accumulator in execution is a record of its tree, the flags panic and
\* diverged, and per loop run the indices idx the loop body was entered with.
\* The while loop of PrimitiveFenwickTree::add; run is the sequence of idx
\* values the body has been entered with so far.
RECURSIVE AddLoop(_, _, _, _, _)
AddLoop(p, idx, val, run, fuel) ==
  IF ~(idx <= VecLen(p.tree))
  THEN [p EXCEPT !.loops = Append(@, [op |-> "add", run |-> run])]
  ELSE IF fuel = 0
  THEN [p EXCEPT !.diverged = TRUE,
                 !.loops = Append(@, [op |-> "add", run |-> run])]
  ELSE IF (idx - 1) \notin DOMAIN p.tree
  THEN [p EXCEPT !.panic = TRUE,
                 !.loops = Append(@, [op |-> "add", run |-> Append(run, idx)])]
  ELSE AddLoop([p EXCEPT !.tree[idx - 1] = add(@, val)],
               (idx + lowbit(idx)) % WordMod, val,
               Append(run, idx), fuel - 1)

\* Faulty variant of PrimitiveFenwickTree_add: idx += 1 is left out.
PrimitiveFenwickTree_add_no_shift(p, idx, val) ==
  IF p.panic \/ p.diverged THEN p
  ELSE AddLoop(p, idx, val, <<>>, MaxIter)

PrimitiveFenwickTree_add(p, idx, val) ==
  IF p.panic \/ p.diverged THEN p
  ELSE AddLoop(p, idx + 1, val, <<>>, MaxIter)

\* The while loop of PrimitiveFenwickTree::sum; returns the record and result.
RECURSIVE SumLoop(_, _, _, _, _)
SumLoop(p, idx, result, run, fuel) ==
  IF ~(idx > 0)
  THEN [p |-> [p EXCEPT !.loops = Append(@, [op |-> "sum", run |-> run])],
        ret |-> result]
  ELSE IF fuel = 0
  THEN [p |-> [p EXCEPT !.diverged = TRUE,
                        !.loops = Append(@, [op |-> "sum", run |-> run])],
        ret |-> result]
  ELSE IF (idx - 1) \notin DOMAIN p.tree
  THEN [p |-> [p EXCEPT !.panic = TRUE,
                        !.loops = Append(@, [op |-> "sum",
                                             run |-> Append(run, idx)])],
        ret |-> result]
  ELSE SumLoop(p, idx - lowbit(idx), add(result, p.tree[idx - 1]),
               Append(run, idx), fuel - 1)

\* Faulty variant of PrimitiveFenwickTree_sum: the index is clamped to the tree.
PrimitiveFenwickTree_sum_clamped(p, idx) ==
  IF p.panic \/ p.diverged THEN [p |-> p, ret |-> zero]
  ELSE SumLoop(p, IF idx + 1 > VecLen(p.tree) THEN VecLen(p.tree) ELSE idx + 1,
               zero, <<>>, MaxIter)

PrimitiveFenwickTree_sum(p, idx) ==
  IF p.panic \/ p.diverged THEN [p |-> p, ret |-> zero]
  ELSE SumLoop(p, idx + 1, zero, <<>>, MaxIter)

\* ------------------------------------------------------------ FenwickTree
FenwickTree_new(n) ==
  [diff |-> PrimitiveFenwickTree_new(n), offset |-> PrimitiveFenwickTree_new(n)]

\* The execution record of a call on the structure self: both accumulators
\* and the loop runs of the call, in the order they were made.
FExec(self) ==
  [diff |-> self.diff, offset |-> self.offset, panic |-> FALSE,
   diverged |-> FALSE, loops |-> <<>>]

\* self.diff.add(idx, val)
DiffAdd(f, idx, val) ==
  LET p == PrimitiveFenwickTree_add(
             [tree |-> f.diff, panic |-> f.panic, diverged |-> f.diverged,
              loops |-> f.loops], idx, val)
  IN  [f EXCEPT !.diff = p.tree, !.panic = p.panic,
                !.diverged = p.diverged, !.loops = p.loops]

\* self.offset.add(idx, val)
OffsetAdd(f, idx, val) ==
  LET p == PrimitiveFenwickTree_add(
             [tree |-> f.offset, panic |-> f.panic, diverged |-> f.diverged,
              loops |-> f.loops], idx, val)
  IN  [f EXCEPT !.offset = p.tree, !.panic = p.panic,
                !.diverged = p.diverged, !.loops = p.loops]

FenwickTree_add(f, begin, end, val) ==
  IF begin >= end THEN f
  ELSE LET f1 == DiffAdd(f, begin, val)
           f2 == DiffAdd(f1, end, neg(val))
           f3 == OffsetAdd(f2, begin, scale(begin, neg(val)))
       IN  OffsetAdd(f3, end, scale(end, val))

\* Faulty variant of sum_until: the prefix aggregate is weighted by end - 1.
sum_until_off_by_one(f, end) ==
  LET s == PrimitiveFenwickTree_sum(
             [tree |-> f.diff, panic |-> f.panic, diverged |-> f.diverged,
              loops |-> f.loops], end - 1)
      o == PrimitiveFenwickTree_sum(
             [tree |-> f.offset, panic |-> s.p.panic,
              diverged |-> s.p.diverged, loops |-> s.p.loops], end - 1)
  IN  [f |-> [f EXCEPT !.panic = o.p.panic, !.diverged = o.p.diverged,
                       !.loops = o.p.loops],
       ret |-> add(scale(end - 1, s.ret), o.ret)]

sum_until(f, end) ==
  LET s == PrimitiveFenwickTree_sum(
             [tree |-> f.diff, panic |-> f.panic, diverged |-> f.diverged,
              loops |-> f.loops], end - 1)
      o == PrimitiveFenwickTree_sum(
             [tree |-> f.offset, panic |-> s.p.panic,
              diverged |-> s.p.diverged, loops |-> s.p.loops], end - 1)
  IN  [f |-> [f EXCEPT !.panic = o.p.panic, !.diverged = o.p.diverged,
                       !.loops = o.p.loops],
       ret |-> add(scale(end, s.ret), o.ret)]

\* Faulty variant of FenwickTree_sum: the lower prefix is taken up to begin - 1.
FenwickTree_sum_low_prefix(f, begin, end) ==
  IF begin >= end THEN [f |-> f, ret |-> zero]
  ELSE IF begin = 0 THEN sum_until(f, end)
  ELSE LET hi == sum_until(f, end)
           lo == sum_until(hi.f, begin - 1)
       IN  [f |-> lo.f, ret |-> sub(hi.ret, lo.ret)]

FenwickTree_sum(f, begin, end) ==
  IF begin >= end THEN [f |-> f, ret |-> zero]
  ELSE IF begin = 0 THEN sum_until(f, end)
  ELSE LET hi == sum_until(f, end)
           lo == sum_until(hi.f, begin)
       IN  [f |-> lo.f, ret |-> sub(hi.ret, lo.ret)]

\* ------------------------------------------------------ reference array
\* The O(N) oracle: a plain array on which update / add act position by
\* position and query / sum fold from left to right.
RefUpdate(a, r, begin, end, u) ==
  [p \in DOMAIN r |-> IF begin <= p /\ p < end THEN apply(a, r[p], u) ELSE r[p]]

RECURSIVE RefQuery(_, _, _, _)
RefQuery(a, r, begin, end) ==
  IF begin >= end THEN ident
  ELSE combine(a, RefQuery(a, r, begin, end - 1), r[end - 1])

RefAdd(r, begin, end, v) ==
  [p \in DOMAIN r |-> IF begin <= p /\ p < end THEN add(r[p], v) ELSE r[p]]

RECURSIVE RefSum(_, _, _)
RefSum(r, begin, end) ==
  IF begin >= end THEN zero
  ELSE add(RefSum(r, begin, end - 1), r[end - 1])

Abs(x) == IF x < 0 THEN 0 - x ELSE x

\* ------------------------------------------------------------- the state
\* The structure as the calls see it.
SegSelf == [size |-> size, values |-> values, thunks |-> thunks]

FenSelf == [diff |-> diff, offset |-> offset]

\* How a call ended: it returned, it panicked (an index outside its Vec), or
\* it ran out of fuel (it would never return).
Outcome(x) ==
  IF x.panic THEN "panicked" ELSE IF x.diverged THEN "diverged" ELSE "running"

\* Index pairs of a structure of size n: within the caller contract
\* (begin <= end <= n), reversed (n >= begin > end) and with an index beyond
\* the structure (begin > n or end > n).
Ranges(n) == {r \in (0..n) \X (0..n) : r[1] <= r[2]}

Reversed(n) == {r \in (0..n) \X (0..n) : r[1] > r[2]}

Beyond(n) ==
  {r \in (0..(n + MaxOver)) \X (0..(n + MaxOver)) : r[1] > n \/ r[2] > n}

\* The ranges of Beyond(n) that are well-formed but for their end.
BeyondEnd(n) == {r \in Beyond(n) : r[1] <= r[2]}

\* The update values and the addends that are handed in.  ident() and zero()
\* themselves, the updates that change no position, are left out.
UpdateVals == 1..MaxVal

AddVals == ((0 - MaxVal)..MaxVal) \ {zero}

\* No DisjointSet, DirectedGraph or Mod has been constructed.
NoOthers ==
  /\ parents = <<>> /\ ranks = <<>> /\ adj = <<>>
  /\ modulus = 0 /\ self_value = 0 /\ build = "none"

Init ==
  /\ kind \in {"SegmentTree", "FenwickTree"}
  /\ size \in 0..(IF kind = "SegmentTree" THEN MaxSegSize ELSE MaxFenSize)
  /\ alg \in IF kind = "SegmentTree" THEN Algs ELSE {"Sum"}
  /\ values = IF kind = "SegmentTree" THEN SegmentTree_new(size).values ELSE <<>>
  /\ thunks = IF kind = "SegmentTree" THEN SegmentTree_new(size).thunks ELSE <<>>
  /\ diff = IF kind = "FenwickTree" THEN FenwickTree_new(size).diff ELSE <<>>
  /\ offset = IF kind = "FenwickTree" THEN FenwickTree_new(size).offset ELSE <<>>
  /\ ref = [p \in 0..(size - 1) |-> 0]
  /\ status = "running"
  /\ NoOthers

\* tree.update(begin, end, value)
DoUpdate(begin, end, value) ==
  LET t == update(Exec(alg, SegSelf), begin, end, value)
  IN  /\ kind = "SegmentTree" /\ status = "running"
      /\ alg = "MaxAdd" =>
           \A p \in DOMAIN ref :
             RefUpdate(alg, ref, begin, end, value)[p] <= MaxSum
      /\ ref' = RefUpdate(alg, ref, begin, end, value)
      /\ values' = t.values
      /\ thunks' = t.thunks
      /\ status' = Outcome(t)
      /\ UNCHANGED <<kind, alg, size, diff, offset, others>>

\* tree.query(begin, end)
DoQuery(begin, end) ==
  LET q == query(Exec(alg, SegSelf), begin, end)
  IN  /\ kind = "SegmentTree" /\ status = "running"
      /\ values' = q.t.values
      /\ thunks' = q.t.thunks
      /\ status' = Outcome(q.t)
      /\ UNCHANGED <<kind, alg, size, diff, offset, ref, others>>

\* ft.add(begin, end, val)
DoAdd(begin, end, val) ==
  LET f == FenwickTree_add(FExec(FenSelf), begin, end, val)
  IN  /\ kind = "FenwickTree" /\ status = "running"
      /\ \A p \in DOMAIN ref : Abs(RefAdd(ref, begin, end, val)[p]) <= MaxSum
      /\ ref' = RefAdd(ref, begin, end, val)
      /\ diff' = f.diff
      /\ offset' = f.offset
      /\ status' = Outcome(f)
      /\ UNCHANGED <<kind, alg, size, values, thunks, others>>

\* ft.sum(begin, end): it takes &self, so the accumulators stay as they are.
DoSum(begin, end) ==
  LET r == FenwickTree_sum(FExec(FenSelf), begin, end)
  IN  /\ kind = "FenwickTree" /\ status = "running"
      /\ status' = Outcome(r.f)
      /\ UNCHANGED <<kind, alg, size, values, thunks, diff, offset, ref, others>>

\* Calls within the caller contract 0 <= begin <= end <= size.
Update == \E r \in Ranges(size), value \in UpdateVals : DoUpdate(r[1], r[2], value)

Query == \E r \in Ranges(size) : DoQuery(r[1], r[2])

Add == \E r \in Ranges(size), val \in AddVals : DoAdd(r[1], r[2], val)

Sum == \E r \in Ranges(size) : DoSum(r[1], r[2])

Next == Update \/ Query \/ Add \/ Sum

Spec == Init /\ [][Next]_vars

\* Calls with a reversed range, size >= begin > end >= 0.
UpdateReversed ==
  \E r \in Reversed(size), value \in UpdateVals : DoUpdate(r[1], r[2], value)

QueryReversed == \E r \in Reversed(size) : DoQuery(r[1], r[2])

AddReversed == \E r \in Reversed(size), val \in AddVals : DoAdd(r[1], r[2], val)

SumReversed == \E r \in Reversed(size) : DoSum(r[1], r[2])

NextDegenerate ==
  Next \/ UpdateReversed \/ QueryReversed \/ AddReversed \/ SumReversed

SpecDegenerate == Init /\ [][NextDegenerate]_vars

\* Calls whose range ends beyond the structure, begin <= end and end > size.
UpdateBeyond ==
  \E r \in BeyondEnd(size), value \in UpdateVals : DoUpdate(r[1], r[2], value)

QueryBeyond == \E r \in BeyondEnd(size) : DoQuery(r[1], r[2])

AddBeyond == \E r \in BeyondEnd(size), val \in AddVals : DoAdd(r[1], r[2], val)

SumBeyond == \E r \in BeyondEnd(size) : DoSum(r[1], r[2])

NextMisuse ==
  Next \/ UpdateBeyond \/ QueryBeyond \/ AddBeyond \/ SumBeyond

SpecMisuse == Init /\ [][NextMisuse]_vars

\* ---------------------------------------------------------- the claims
\* The structure a call leaves behind.
SegAfter(t) == [size |-> t.size, values |-> t.values, thunks |-> t.thunks]

\* A call returned: it neither panicked nor ran out of fuel.
Returned(x) == ~x.panic /\ ~x.diverged

SegLive == kind = "SegmentTree" /\ status = "running"

FenLive == kind = "FenwickTree" /\ status = "running"

\* C1: after any sequence of update and query calls with
\* 0 <= begin <= end <= size, every query(begin, end) returns the combine,
\* in increasing index order, of positions begin..end-1 of the reference
\* array.
C1_QueryMatchesReference ==
  SegLive =>
    \A r \in Ranges(size) :
      LET q == query(Exec(alg, SegSelf), r[1], r[2])
      IN  Returned(q.t) /\ q.ret = RefQuery(alg, ref, r[1], r[2])

\* C2: after any sequence of add and sum calls with
\* 0 <= begin <= end <= size, every sum(begin, end) returns the sum of
\* positions begin..end-1 of the reference array.
C2_SumMatchesReference ==
  FenLive =>
    \A r \in Ranges(size) :
      LET q == FenwickTree_sum(FExec(FenSelf), r[1], r[2])
      IN  Returned(q.f) /\ q.ret = RefSum(ref, r[1], r[2])

\* C2 witness: a tree over three positions that holds positive and negative
\* contributions and a sum over an inner range that is not zero.
C2_Witness ==
  /\ FenLive /\ size = 3
  /\ ref[0] > 0 /\ ref[1] < 0 /\ ref[2] < 0
  /\ FenwickTree_sum(FExec(FenSelf), 1, 3).ret = ref[1] + ref[2]
  /\ FenwickTree_sum(FExec(FenSelf), 1, 3).ret # 0

\* C3: in any reachable state an update(begin, end, u) with begin >= end
\* leaves the result of every later query(b, e), 0 <= b <= e <= size, as it
\* was.
C3_EmptyUpdateKeepsQueries ==
  SegLive =>
    \A r \in Ranges(size) \cup Reversed(size) : \A u \in UpdateVals :
      r[1] >= r[2] =>
        LET t == update(Exec(alg, SegSelf), r[1], r[2], u)
        IN  \A q \in Ranges(size) :
              query(Exec(alg, SegAfter(t)), q[1], q[2]).ret
                = query(Exec(alg, SegSelf), q[1], q[2]).ret

\* C4: for every position i the single-element query(i, i+1) returns
\* ident() with the updates covering i applied in call order, which is what
\* the reference array holds at i; also for a compose that does not commute.
C4_SingleElementQuery ==
  SegLive =>
    \A i \in 0..(size - 1) :
      LET q == query(Exec(alg, SegSelf), i, i + 1)
      IN  Returned(q.t) /\ q.ret = ref[i]

\* C4 witness: under the non-commutative compose, leaf 0 holds an assigned
\* value and a newer pending assignment, and query(0, 1) returns the newer.
C4_Witness ==
  /\ SegLive /\ alg = "MaxAssign" /\ size = 2
  /\ values[2] = 1 /\ thunks[2] = 2 /\ ref[0] = 2
  /\ query(Exec(alg, SegSelf), 0, 1).ret = 2

\* C5: query(begin, end) equals combine(query(begin, mid), query(mid, end))
\* for all 0 <= begin <= mid <= end <= size, the three calls made one after
\* the other on the structure.
C5_QueryDecomposes ==
  SegLive =>
    \A r \in Ranges(size) : \A mid \in r[1]..r[2] :
      LET whole == query(Exec(alg, SegSelf), r[1], r[2])
          lo == query(Exec(alg, SegAfter(whole.t)), r[1], mid)
          hi == query(Exec(alg, SegAfter(lo.t)), mid, r[2])
      IN  whole.ret = combine(alg, lo.ret, hi.ret)

\* C6: query(begin, end) with begin >= end returns ident(), also when
\* 0 < end <= begin < size, where the root is not disjoint and the descent
\* enters the tree.
C6_EmptyQueryReturnsIdent ==
  SegLive =>
    \A r \in Ranges(size) \cup Reversed(size) :
      r[1] >= r[2] =>
        LET q == query(Exec(alg, SegSelf), r[1], r[2])
        IN  Returned(q.t) /\ q.ret = ident

\* C6 witness: on an updated tree of size 2, query(1, 1) descends from the
\* root and returns ident().
C6_Witness ==
  /\ SegLive /\ size = 2
  /\ ref[0] # ident /\ ref[1] # ident /\ values[1] # ident
  /\ query(Exec(alg, SegSelf), 1, 1).t.desc = {root(SegSelf)}
  /\ query(Exec(alg, SegSelf), 1, 1).ret = ident

\* C7: sum(begin, end) = add(sum(begin, mid), sum(mid, end)) for all
\* 0 <= begin <= mid <= end <= size, mid = begin, mid = end and begin = 0
\* included.
C7_SumIsAdditive ==
  FenLive =>
    \A r \in Ranges(size) : \A mid \in r[1]..r[2] :
      FenwickTree_sum(FExec(FenSelf), r[1], r[2]).ret
        = add(FenwickTree_sum(FExec(FenSelf), r[1], mid).ret,
              FenwickTree_sum(FExec(FenSelf), mid, r[2]).ret)

\* C7 witness: three positions with non-zero contributions, split inside.
C7_Witness ==
  /\ FenLive /\ size = 3
  /\ FenwickTree_sum(FExec(FenSelf), 0, 1).ret # zero
  /\ FenwickTree_sum(FExec(FenSelf), 1, 2).ret # zero
  /\ FenwickTree_sum(FExec(FenSelf), 2, 3).ret # zero
  /\ FenwickTree_sum(FExec(FenSelf), 1, 3).ret # zero
  /\ FenwickTree_sum(FExec(FenSelf), 1, 3).ret
       = add(FenwickTree_sum(FExec(FenSelf), 1, 2).ret,
             FenwickTree_sum(FExec(FenSelf), 2, 3).ret)

\* C8: a structure of size 0 exists, and on it sum(0, 0) returns zero(),
\* query(0, 0) returns ident(), and add(0, 0, v) and update(0, 0, u) return
\* without touching a slot outside the arrays and without changing the
\* structure.
C8_SizeZero ==
  (size = 0 /\ status = "running") =>
    IF kind = "SegmentTree"
    THEN /\ LET q == query(Exec(alg, SegSelf), 0, 0)
            IN  Returned(q.t) /\ q.ret = ident /\ q.t.acc \subseteq DOMAIN values
         /\ \A u \in UpdateVals :
              LET t == update(Exec(alg, SegSelf), 0, 0, u)
              IN  /\ Returned(t)
                  /\ t.acc \subseteq DOMAIN values
                  /\ SegAfter(t) = SegSelf
    ELSE /\ LET q == FenwickTree_sum(FExec(FenSelf), 0, 0)
            IN  Returned(q.f) /\ q.ret = zero
         /\ \A v \in AddVals :
              LET f == FenwickTree_add(FExec(FenSelf), 0, 0, v)
              IN  /\ Returned(f)
                  /\ f.diff = diff /\ f.offset = offset

\* C8 witness: the SegmentTree of size 0, whose arrays hold the two slots
\* 2 * next_power_of_two(0), and on which update(0, 0, u) touches no slot.
C8_Witness ==
  /\ size = 0 /\ SegLive
  /\ DOMAIN values = 0..1
  /\ update(Exec(alg, SegSelf), 0, 0, MaxVal).acc = {}

\* One accumulator loop: every index the body is entered with lies in
\* [1, cap], and the index strictly advances (upwards in add, downwards in
\* sum).
LoopAdvances(l, cap) ==
  /\ \A k \in 1..Len(l.run) : l.run[k] \in 1..cap
  /\ \A k \in 1..(Len(l.run) - 1) :
       IF l.op = "add" THEN l.run[k + 1] > l.run[k]
                       ELSE l.run[k + 1] < l.run[k]

\* C9: every add, sum, update and query with 0 <= begin, end <= size
\* (begin >= end included) terminates: no call runs out of fuel, the
\* accumulator loops strictly advance inside [1, capacity], and the descent
\* never goes below a node of length 1 or 0.
C9_CallsTerminate ==
  status = "running" =>
    \A r \in Ranges(size) \cup Reversed(size) :
      IF kind = "SegmentTree"
      THEN /\ \A u \in UpdateVals :
                LET t == update(Exec(alg, SegSelf), r[1], r[2], u)
                IN  ~t.diverged /\ \A s \in t.desc : length(s) >= 2
           /\ LET q == query(Exec(alg, SegSelf), r[1], r[2])
              IN  ~q.t.diverged /\ \A s \in q.t.desc : length(s) >= 2
      ELSE /\ \A v \in AddVals :
                LET f == FenwickTree_add(FExec(FenSelf), r[1], r[2], v)
                IN  /\ ~f.diverged
                    /\ \A k \in 1..Len(f.loops) : LoopAdvances(f.loops[k], size)
           /\ LET q == FenwickTree_sum(FExec(FenSelf), r[1], r[2])
              IN  /\ ~q.f.diverged
                  /\ \A k \in 1..Len(q.f.loops) :
                       LoopAdvances(q.f.loops[k], size)

\* C9 witness: an accumulator of three slots on which add(0, 3, v) runs a
\* loop of two steps.
C9_Witness ==
  /\ FenLive /\ size = 3
  /\ \E p \in DOMAIN ref : ref[p] # 0
  /\ FenwickTree_add(FExec(FenSelf), 0, 3, 1).loops[1].run = <<1, 2>>

\* min(i, size): an index clamped to the structure.
Clamp(i) == IF i > size THEN size ELSE i

OrderVals == {0 - MaxVal, 1, MaxVal}

\* The add calls within the caller contract that change a position.
AddCalls(n) ==
  {c \in Ranges(n) \X OrderVals : c[1][1] < c[1][2]}

\* ft.add(c) on the execution record f.
AddCall(f, c) == FenwickTree_add(f, c[1][1], c[1][2], c[2])

\* A number per add call, to take every pair of calls once.
CallKey(c) ==
  ((c[1][1] * (size + 1)) + c[1][2]) * ((2 * MaxVal) + 1) + (c[2] + MaxVal)

\* C11: for any two add calls with in-range indices, executing them in
\* either order from the same reachable state leaves the same diff and
\* offset accumulators; sum(b, e) reads nothing but these accumulators, so
\* every sum has the same value after either order.
C11_AddOrderIndependent ==
  FenLive =>
    LET once == [c \in AddCalls(size) |-> AddCall(FExec(FenSelf), c)]
    IN  \A c1, c2 \in AddCalls(size) :
          CallKey(c1) < CallKey(c2) =>
            LET a == AddCall(once[c1], c2)
                b == AddCall(once[c2], c1)
            IN  /\ Returned(a) /\ Returned(b)
                /\ a.diff = b.diff /\ a.offset = b.offset

\* C11 witness: a tree holding contributions on which two overlapping adds
\* with different values, add(0, 2, 1) and add(1, 3, -1), change both
\* accumulators.
C11_Witness ==
  /\ FenLive /\ size = 3
  /\ \E p \in DOMAIN ref : ref[p] # 0
  /\ LET a == FenwickTree_add(FenwickTree_add(FExec(FenSelf), 0, 2, 1), 1, 3, 0 - 1)
         b == FenwickTree_add(FenwickTree_add(FExec(FenSelf), 1, 3, 0 - 1), 0, 2, 1)
     IN  /\ a.diff = b.diff /\ a.offset = b.offset
         /\ a.diff # diff /\ a.offset # offset
         /\ FenwickTree_add(FExec(FenSelf), 0, 2, 1).diff # a.diff

\* ------------------------------------------------------------- Mod<N>
\* A Mod in execution is a record of its value and of whether computing it
\* panicked.  usize has WordBits bits: a product or sum of WordMod or more
\* overflows, which panics where the build checks overflow ("debug") and
\* wraps around where it does not ("release").
Builds == {"debug", "release"}

UsizeOp(exact, b) ==
  IF exact < WordMod THEN [value |-> exact, panic |-> FALSE]
  ELSE IF b = "debug" THEN [value |-> 0, panic |-> TRUE]
  ELSE [value |-> exact % WordMod, panic |-> FALSE]

\* Mod::new(value): value % N
Mod_new(N, v) == [value |-> v % N, panic |-> FALSE]

\* impl Add for Mod: Self::new(self.value + rhs.value)
Mod_add(N, b, x, rhs) ==
  LET sum == UsizeOp(x.value + rhs.value, b)
  IN  IF x.panic \/ rhs.panic \/ sum.panic
      THEN [value |-> x.value, panic |-> TRUE]
      ELSE Mod_new(N, sum.value)

\* impl Mul for Mod: Self::new(self.value * rhs.value)
Mod_mul(N, b, x, rhs) ==
  LET product == UsizeOp(x.value * rhs.value, b)
  IN  IF x.panic \/ rhs.panic \/ product.panic
      THEN [value |-> x.value, panic |-> TRUE]
      ELSE Mod_new(N, product.value)

\* The while loop of Mod::pow.
RECURSIVE PowLoop(_, _, _, _, _, _)
PowLoop(N, b, result, base, nth, fuel) ==
  IF result.panic \/ base.panic
  THEN [value |-> result.value, panic |-> TRUE, diverged |-> FALSE]
  ELSE IF ~(nth > 0)
  THEN [value |-> result.value, panic |-> FALSE, diverged |-> FALSE]
  ELSE IF fuel = 0
  THEN [value |-> result.value, panic |-> FALSE, diverged |-> TRUE]
  ELSE LET r1 == IF nth % 2 = 1 THEN Mod_mul(N, b, result, base) ELSE result
           b1 == IF r1.panic THEN base ELSE Mod_mul(N, b, base, base)
       IN  PowLoop(N, b, r1, b1, nth \div 2, fuel - 1)

\* Mod::pow(self, nth)
Mod_pow(N, b, x, nth) == PowLoop(N, b, Mod_new(N, 1), x, nth, MaxIter)

\* The Mod the calls are made on.
ModSelf == [value |-> self_value, panic |-> FALSE]

\* No range structure has been constructed.
NoRangeStructure ==
  /\ alg = "none" /\ values = <<>> /\ thunks = <<>>
  /\ diff = <<>> /\ offset = <<>>

\* let a: Mod<N> = Mod::new(v), for every residue v % N, in either build.
InitMod ==
  /\ kind = "Mod"
  /\ modulus \in 2..MaxMod
  /\ self_value \in {Mod_new(modulus, v).value : v \in 0..(WordMod - 1)}
  /\ build \in Builds
  /\ status = "running"
  /\ size = 0 /\ ref = <<>>
  /\ NoRangeStructure
  /\ parents = <<>> /\ ranks = <<>> /\ adj = <<>>

\* What a call on the Mod leaves behind.
ModStep(r) ==
  /\ kind = "Mod" /\ status = "running"
  /\ self_value' = r.value
  /\ status' = IF r.panic THEN "panicked" ELSE "running"
  /\ UNCHANGED <<kind, alg, size, values, thunks, diff, offset, ref,
                 parents, ranks, adj, modulus, build>>

\* a = a.pow(nth)
Pow ==
  \E nth \in 0..MaxExp :
    LET r == Mod_pow(modulus, build, ModSelf, nth)
    IN  /\ ModStep(r)
        /\ ~r.diverged

\* a += Mod::new(v)
AddAssign ==
  \E v \in 0..(WordMod - 1) :
    ModStep(Mod_add(modulus, build, ModSelf, Mod_new(modulus, v)))

\* a *= Mod::new(v)
MulAssign ==
  \E v \in 0..(WordMod - 1) :
    ModStep(Mod_mul(modulus, build, ModSelf, Mod_new(modulus, v)))

NextMod == Pow \/ AddAssign \/ MulAssign

SpecMod == InitMod /\ [][NextMod]_vars

\* v^n mod N by n iterated multiplications, on unbounded integers.
RECURSIVE RefPow(_, _, _)
RefPow(N, v, nth) ==
  IF nth = 0 THEN 1 % N ELSE (RefPow(N, v, nth - 1) * v) % N

\* C12: for every modulus N >= 2, every base value v and every exponent
\* n >= 0, Mod::<N>::new(v).pow(n) returns, and its value is v^n mod N as
\* computed by n iterated multiplications, is 1 for n = 0 and is below N.
C12_PowMatchesIteratedProduct ==
  (kind = "Mod" /\ status = "running") =>
    \A nth \in 0..MaxExp :
      LET r == Mod_pow(modulus, build, ModSelf, nth)
      IN  /\ ~r.panic /\ ~r.diverged
          /\ r.value = RefPow(modulus, self_value, nth)
          /\ nth = 0 => r.value = 1
          /\ r.value < modulus

\* ------------------------------------------- SegmentTree: node invariants
\* The nodes of the tree below (and including) the node s, as the descent
\* of _update and _query splits them.
RECURSIVE NodesBelow(_)
NodesBelow(s) ==
  IF length(s) <= 1 THEN {s}
  ELSE {s} \cup NodesBelow(left_child(s)) \cup NodesBelow(right_child(s))

Nodes == NodesBelow(root(SegSelf))

\* The indices of the proper ancestors of node i: i / 2, i / 4, ..., 1.
RECURSIVE Ancestors(_)
Ancestors(i) == IF i <= 1 THEN {} ELSE {i \div 2} \cup Ancestors(i \div 2)

\* C13: in every reachable state, for every node whose proper ancestors all
\* hold thunk ident(), apply(values[i], thunks[i]) is the combine of the
\* reference array over the node's range; and every internal node has
\* values[i] = combine(apply(values[2i], thunks[2i]),
\*                     apply(values[2i+1], thunks[2i+1])).
C13_NodeAggregates ==
  SegLive =>
    \A s \in Nodes :
      /\ (\A j \in Ancestors(s.idx) : thunks[j] = ident) =>
           apply(alg, values[s.idx], thunks[s.idx])
             = RefQuery(alg, ref, s.begin, s.end)
      /\ length(s) > 1 =>
           values[s.idx]
             = combine(alg,
                       apply(alg, values[2 * s.idx], thunks[2 * s.idx]),
                       apply(alg, values[(2 * s.idx) + 1],
                             thunks[(2 * s.idx) + 1]))

\* --------------------------------- SegmentTree: the visit to an included node
\* The execution record of the visit v of an update by u to an included
\* node: the arrays as the visit found them, and what it leaves.
BeforeVisit(v) ==
  [Exec(alg, SegSelf) EXCEPT !.values = v.values, !.thunks = v.thunks]

AfterVisit(v, u) == Included(BeforeVisit(v), v.s, u)

\* C14 as claimed: when update(begin, end, u) reaches a node that lies fully
\* inside [begin, end), the visit only sets thunks[idx] to
\* compose(thunks[idx], u): values[idx] and the thunks and values of both
\* children stay as they are, the node is not pushed.
C14_IncludedOnlyComposes ==
  SegLive =>
    \A r \in Ranges(size) : \A u \in UpdateVals :
      \A v \in update(Exec(alg, SegSelf), r[1], r[2], u).inc :
        /\ AfterVisit(v, u).thunks
             = [v.thunks EXCEPT ![v.s.idx] = compose(alg, @, u)]
        /\ AfterVisit(v, u).values = v.values

\* The thunk an included node holds once u is composed into it.
Composed(v, u) == compose(alg, v.thunks[v.s.idx], u)

\* C14 as amended: the visit composes u into thunks[idx] and then pushes
\* the node.  With c = compose(thunks[idx], u) it leaves
\* values[idx] = apply(values[idx], c) and thunks[idx] = ident(), and, unless
\* the node is a leaf, thunks[2 idx] = compose(thunks[2 idx], c) and
\* thunks[2 idx + 1] = compose(thunks[2 idx + 1], c); every other entry,
\* both children's values included, stays as it is, and the descent stops:
\* the call visits no node below the included one.
C14_IncludedComposesAndPushes ==
  SegLive =>
    \A r \in Ranges(size) : \A u \in UpdateVals :
      LET t == update(Exec(alg, SegSelf), r[1], r[2], u)
      IN  \A v \in t.inc :
            LET i == v.s.idx
                c == Composed(v, u)
            IN  /\ AfterVisit(v, u).values
                     = [v.values EXCEPT ![i] = apply(alg, @, c)]
                /\ AfterVisit(v, u).thunks
                     = IF is_leaf(v.s)
                       THEN [v.thunks EXCEPT ![i] = ident]
                       ELSE [v.thunks EXCEPT ![i] = ident,
                                             ![2 * i] = compose(alg, @, c),
                                             ![(2 * i) + 1] = compose(alg, @, c)]
                /\ v.s \notin t.desc
                /\ \A w \in t.desc \cup {x.s : x \in t.inc} :
                     i \notin Ancestors(w.idx)

\* C14 witness: under the non-commutative compose, update(0, 2, MaxVal)
\* finds the root of a tree of size 2 included while both children hold a
\* pending thunk other than MaxVal.
C14_Witness ==
  /\ SegLive /\ alg = "MaxAssign" /\ size = 2
  /\ thunks[2] # ident /\ thunks[2] # MaxVal /\ thunks[3] # ident
  /\ values[1] # ident
  /\ \E v \in update(Exec(alg, SegSelf), 0, 2, MaxVal).inc :
       /\ v.s = root(SegSelf)
       /\ AfterVisit(v, MaxVal).thunks[2] = MaxVal
       /\ AfterVisit(v, MaxVal).values[1] = MaxVal

\* ------------------------------------------------------ SegmentTree: push
\* What push(s) has to leave when it finds the execution record pre.
PushEffect(pre, s) ==
  LET i == s.idx
      t == pre.thunks[i]
      post == push(pre, s)
  IN  /\ Returned(post)
      /\ post.values = [pre.values EXCEPT ![i] = apply(alg, @, t)]
      /\ post.thunks
           = IF length(s) > 1
             THEN [pre.thunks EXCEPT ![i] = ident,
                                     ![2 * i] = compose(alg, @, t),
                                     ![(2 * i) + 1] = compose(alg, @, t)]
             ELSE [pre.thunks EXCEPT ![i] = ident]
      /\ is_leaf(s) => post.acc \subseteq pre.acc \cup {i}

\* C15: push(i), with t the thunk of node i before the call, leaves
\* values[i] = apply(values[i], t) and thunks[i] = ident(); if the node
\* covers more than one position it leaves thunks[2i] = compose(thunks[2i], t)
\* and thunks[2i+1] = compose(thunks[2i+1], t), t being the second argument;
\* every other entry, both children's values included, stays as it is, and
\* for a leaf no child entry is touched.  Stated for the pushes of a query
\* on the structure at rest and for the push an update makes at an included
\* node right after it composed its value into the node's thunk.
C15_PushEffect ==
  SegLive =>
    /\ \A s \in Nodes : length(s) >= 1 => PushEffect(Exec(alg, SegSelf), s)
    /\ \A r \in Ranges(size) : \A u \in UpdateVals :
         \A v \in update(Exec(alg, SegSelf), r[1], r[2], u).inc :
           PushEffect(ComposeThunk(BeforeVisit(v), v.s.idx, u), v.s)

\* C15 witness: under the non-commutative compose the root of a tree of
\* size 2 holds the thunk MaxVal, just composed into it, while its children
\* hold older pending thunks; push hands MaxVal down as the newer one.
C15_Witness ==
  /\ SegLive /\ alg = "MaxAssign" /\ size = 2
  /\ thunks[2] # ident /\ thunks[3] # ident
  /\ LET pre == ComposeThunk(Exec(alg, SegSelf), 1, MaxVal)
         post == push(pre, root(SegSelf))
     IN  /\ pre.thunks[1] = MaxVal
         /\ post.thunks[1] = ident
         /\ post.thunks[2] = compose(alg, thunks[2], MaxVal)
         /\ post.thunks[2] # compose(alg, MaxVal, thunks[2])
         /\ post.values[2] = values[2]

\* --------------------------------------------- SegmentTree: query is read-only
\* C16: in any reachable state a query(b, e), although it rewrites values
\* and thunks by pushing, changes the result of no later query: every
\* query(b', e') returns the same value whether or not query(b, e) was
\* executed first, and the same query made twice in a row returns the same
\* value both times.
C16_QueryKeepsQueries ==
  SegLive =>
    LET afters ==
          {LET t == query(Exec(alg, SegSelf), r[1], r[2]).t
           IN  [self |-> SegAfter(t), returned |-> Returned(t)] :
             r \in Ranges(size)}
    IN  /\ \A a \in afters : a.returned
        /\ \A q \in Ranges(size) :
             LET before == query(Exec(alg, SegSelf), q[1], q[2]).ret
             IN  \A a \in afters :
                   query(Exec(alg, a.self), q[1], q[2]).ret = before

\* C16 witness: query(0, 1) on a tree of size 2 pushes a pending thunk into
\* leaf 0, changing values and thunks, and query(0, 2) and a second
\* query(0, 1) return what they returned before.
C16_Witness ==
  /\ SegLive /\ size = 2
  /\ thunks[2] # ident
  /\ LET first == query(Exec(alg, SegSelf), 0, 1)
     IN  /\ first.t.values # values /\ first.t.thunks # thunks
         /\ first.ret # ident
         /\ query(Exec(alg, SegAfter(first.t)), 0, 1).ret = first.ret
         /\ query(Exec(alg, SegAfter(first.t)), 0, 2).ret
              = query(Exec(alg, SegSelf), 0, 2).ret

\* ------------------------------------------------- the slots a call touches
\* SegmentTree::<usize>::new(size) for every size up to MaxWideSize, sizes
\* that are not powers of two included, with the element type of the
\* repository's tests; or a FenwickTree as in Init.
InitWide ==
  /\ kind \in {"SegmentTree", "FenwickTree"}
  /\ size \in 0..(IF kind = "SegmentTree" THEN MaxWideSize ELSE MaxFenSize)
  /\ alg = IF kind = "SegmentTree" THEN "MaxAdd" ELSE "Sum"
  /\ values = IF kind = "SegmentTree" THEN SegmentTree_new(size).values ELSE <<>>
  /\ thunks = IF kind = "SegmentTree" THEN SegmentTree_new(size).thunks ELSE <<>>
  /\ diff = IF kind = "FenwickTree" THEN FenwickTree_new(size).diff ELSE <<>>
  /\ offset = IF kind = "FenwickTree" THEN FenwickTree_new(size).offset ELSE <<>>
  /\ ref = [p \in 0..(size - 1) |-> 0]
  /\ status = "running"
  /\ NoOthers

SpecWide == InitWide /\ [][Next]_vars

\* The slots self.tree[idx - 1] the accumulator loops of a call entered.
SlotsOf(loops) ==
  UNION {{loops[k].run[j] - 1 : j \in 1..Len(loops[k].run)} :
           k \in 1..Len(loops)}

\* C17: for every size N >= 0, sizes that are not powers of two included,
\* and every update / query call with 0 <= begin <= end <= N, every index
\* at which values or thunks is read or written, the child indices written
\* by push included, lies in [1, 2 * nextPowerOfTwo(N) - 1]; and every slot
\* touched by a FenwickTree add or sum with 0 <= begin <= end <= N lies in
\* [0, N - 1].
C17_IndicesInBounds ==
  status = "running" =>
    \A r \in Ranges(size) :
      IF kind = "SegmentTree"
      THEN LET nodes == 1..((2 * next_power_of_two(size)) - 1)
           IN  /\ \A u \in UpdateVals :
                    LET t == update(Exec(alg, SegSelf), r[1], r[2], u)
                    IN  Returned(t) /\ t.acc \subseteq nodes
               /\ LET q == query(Exec(alg, SegSelf), r[1], r[2])
                  IN  Returned(q.t) /\ q.t.acc \subseteq nodes
      ELSE /\ \A v \in AddVals :
                LET f == FenwickTree_add(FExec(FenSelf), r[1], r[2], v)
                IN  Returned(f) /\ SlotsOf(f.loops) \subseteq 0..(size - 1)
           /\ LET q == FenwickTree_sum(FExec(FenSelf), r[1], r[2])
              IN  Returned(q.f) /\ SlotsOf(q.f.loops) \subseteq 0..(size - 1)

\* C17 witness: a tree of size 3, where the right half [1, 3) of the root
\* splits at the floor midpoint into the leaves 6 and 7, holds pending
\* thunks, and update(2, 3, 1) reaches the last slot 2 * 4 - 1.
C17_Witness ==
  /\ SegLive /\ size = 3
  /\ thunks[2] # ident /\ thunks[3] # ident
  /\ LET t == update(Exec(alg, SegSelf), 2, 3, 1)
     IN  /\ Returned(t)
         /\ {6, 7} \subseteq t.acc
         /\ 7 = (2 * next_power_of_two(size)) - 1
         /\ [idx |-> 3, begin |-> 1, end |-> 3] \in t.desc

\* ------------------------------------------------------------ DisjointSet
\* Option<usize>: None is the empty sequence, Some(p) the sequence <<p>>.
None == <<>>

Some(p) == <<p>>

\* DisjointSet::new(n)
DisjointSet_new(n) ==
  [parents |-> [i \in 0..(n - 1) |-> None], ranks |-> [i \in 0..(n - 1) |-> 0]]

DsuSelf == [parents |-> parents, ranks |-> ranks]

\* The execution record of a call on the structure self.
DsuExec(self) ==
  [parents |-> self.parents, ranks |-> self.ranks,
   panic |-> FALSE, diverged |-> FALSE]

\* find returns the execution record and the returned root.
RECURSIVE find(_, _, _)
\* Faulty variant of find: the element is made its own parent.
find_self_parent(d, u, fuel) ==
  IF d.panic \/ d.diverged THEN [d |-> d, ret |-> u]
  ELSE IF u \notin DOMAIN d.parents
  THEN [d |-> [d EXCEPT !.panic = TRUE], ret |-> u]
  ELSE IF d.parents[u] = None THEN [d |-> d, ret |-> u]
  ELSE IF fuel = 0 THEN [d |-> [d EXCEPT !.diverged = TRUE], ret |-> u]
  ELSE LET r == find(d, d.parents[u][1], fuel - 1)
       IN  IF r.d.panic \/ r.d.diverged THEN r
           ELSE [d |-> [r.d EXCEPT !.parents[u] = Some(u)], ret |-> r.ret]

find(d, u, fuel) ==
  IF d.panic \/ d.diverged THEN [d |-> d, ret |-> u]
  ELSE IF u \notin DOMAIN d.parents
  THEN [d |-> [d EXCEPT !.panic = TRUE], ret |-> u]
  ELSE IF d.parents[u] = None THEN [d |-> d, ret |-> u]
  ELSE IF fuel = 0 THEN [d |-> [d EXCEPT !.diverged = TRUE], ret |-> u]
  ELSE LET r == find(d, d.parents[u][1], fuel - 1)
       IN  IF r.d.panic \/ r.d.diverged THEN r
           ELSE [d |-> [r.d EXCEPT !.parents[u] = Some(r.ret)], ret |-> r.ret]

\* DisjointSet::union; returns the execution record and the returned root.
union(d, u, v) ==
  LET fu == find(d, u, MaxDepth)
      fv == find(fu.d, v, MaxDepth)
      rootu == fu.ret
      rootv == fv.ret
      d2 == fv.d
  IN  IF d2.panic \/ d2.diverged THEN [d |-> d2, ret |-> rootu]
      ELSE IF d2.ranks[rootu] < d2.ranks[rootv]
      THEN [d |-> [d2 EXCEPT !.parents[u] = Some(rootv)], ret |-> rootv]
      ELSE IF d2.ranks[rootv] > d2.ranks[rootu]
      THEN [d |-> [d2 EXCEPT !.parents[v] = Some(rootu)], ret |-> rootu]
      ELSE IF rootu # rootv
      THEN [d |-> [d2 EXCEPT !.parents[v] = Some(rootu),
                             !.ranks[rootu] = @ + 1],
            ret |-> rootu]
      ELSE [d |-> d2, ret |-> rootu]

\* The reference partition: ref[x] is the least element connected to x by
\* the reflexive-symmetric-transitive closure of the unioned pairs.
RefUnion(r, u, v) ==
  LET least == IF r[u] <= r[v] THEN r[u] ELSE r[v]
  IN  [x \in DOMAIN r |-> IF r[x] = r[u] \/ r[x] = r[v] THEN least ELSE r[x]]

\* let mut ds = DisjointSet::new(size)
InitDisjointSet ==
  /\ kind = "DisjointSet"
  /\ size \in 0..MaxSetSize
  /\ parents = DisjointSet_new(size).parents
  /\ ranks = DisjointSet_new(size).ranks
  /\ ref = [x \in 0..(size - 1) |-> x]
  /\ status = "running"
  /\ NoRangeStructure
  /\ adj = <<>> /\ modulus = 0 /\ self_value = 0 /\ build = "none"

\* ds.find(u)
Find ==
  \E u \in 0..(size - 1) :
    LET r == find(DsuExec(DsuSelf), u, MaxDepth)
    IN  /\ kind = "DisjointSet" /\ status = "running"
        /\ parents' = r.d.parents
        /\ ranks' = r.d.ranks
        /\ status' = Outcome(r.d)
        /\ UNCHANGED <<kind, alg, size, values, thunks, diff, offset, ref,
                       adj, modulus, self_value, build>>

\* ds.union(u, v)
Union ==
  \E u \in 0..(size - 1), v \in 0..(size - 1) :
    LET r == union(DsuExec(DsuSelf), u, v)
    IN  /\ kind = "DisjointSet" /\ status = "running"
        /\ parents' = r.d.parents
        /\ ranks' = r.d.ranks
        /\ ref' = RefUnion(ref, u, v)
        /\ status' = Outcome(r.d)
        /\ UNCHANGED <<kind, alg, size, values, thunks, diff, offset,
                       adj, modulus, self_value, build>>

NextDisjointSet == Find \/ Union

SpecDisjointSet == InitDisjointSet /\ [][NextDisjointSet]_vars

DsuLive == kind = "DisjointSet" /\ status = "running"

\* find(x) == find(y), the two calls made one after the other on self.
SameSet(self, x, y) ==
  LET fx == find(DsuExec(self), x, MaxDepth)
      fy == find(fx.d, y, MaxDepth)
  IN  Returned(fy.d) /\ fx.ret = fy.ret

\* C18: after any sequence of union calls, find(x) == find(y) holds exactly
\* when x and y are connected by the reflexive-symmetric-transitive closure
\* of the unioned pairs; in particular two elements that are in the same
\* set before a union call are still in the same set after it.
C18_FindMatchesConnectivity ==
  DsuLive =>
    /\ \A x, y \in 0..(size - 1) :
         SameSet(DsuSelf, x, y) <=> (ref[x] = ref[y])
    /\ \A u, v \in 0..(size - 1) :
         LET after == union(DsuExec(DsuSelf), u, v).d
         IN  \A x, y \in 0..(size - 1) :
               SameSet(DsuSelf, x, y) =>
                 SameSet([parents |-> after.parents, ranks |-> after.ranks],
                         x, y)

\* The root reached from x by following parent pointers, at most fuel
\* times; Cyclic if no root is reached.
Cyclic == 0 - 1

RECURSIVE RootOf(_, _, _)
RootOf(p, x, fuel) ==
  IF p[x] = None THEN x
  ELSE IF fuel = 0 THEN Cyclic
  ELSE RootOf(p, p[x][1], fuel - 1)

\* C19: in every DisjointSet state reachable by find and union calls the
\* parent pointers form a forest (following them from any element reaches a
\* root, so no element is its own ancestor), find(u) terminates and returns an
\* element whose parent is None, and find changes no element's root.
C19_ForestAndFindKeepsRoots ==
  DsuLive =>
    /\ \A x \in 0..(size - 1) : RootOf(parents, x, size) # Cyclic
    /\ \A u \in 0..(size - 1) :
         LET r == find(DsuExec(DsuSelf), u, MaxDepth)
         IN  /\ Returned(r.d)
             /\ r.ret \in 0..(size - 1)
             /\ r.d.parents[r.ret] = None
             /\ r.ret = RootOf(parents, u, size)
             /\ \A x \in 0..(size - 1) :
                  RootOf(r.d.parents, x, size) = RootOf(parents, x, size)

\* After unions some element is two parent pointers away from its root, so
\* find on it rewrites its parent.
C19_Witness ==
  /\ DsuLive
  /\ \E u \in 0..(size - 1) :
       /\ parents[u] # None
       /\ parents[parents[u][1]] # None
       /\ find(DsuExec(DsuSelf), u, MaxDepth).d.parents # parents

\* ---------------------------------------------------------- DirectedGraph
\* DirectedGraph::new(n); adj[v] is the Vec of v's successors, in push order.
DirectedGraph_new(n) == [n |-> n, adj |-> [v \in 0..(n - 1) |-> <<>>]]

\* DirectedGraph::add_edge
add_edge(g, u, v) == [g EXCEPT !.adj[u] = Append(@, v)]

GraphSelf == [n |-> size, adj |-> adj]

\* The locals a traversal works on: visited, result, and how it ended.
Traversal(n) ==
  [visited |-> [v \in 0..(n - 1) |-> FALSE], result |-> <<>>,
   panic |-> FALSE, diverged |-> FALSE]

RECURSIVE dfs(_, _, _, _)
RECURSIVE DfsNexts(_, _, _, _, _)
\* for &next in &self.adj[current] { self.dfs(next, visited, result); }
DfsNexts(g, nexts, i, st, fuel) ==
  IF i > Len(nexts) THEN st
  ELSE DfsNexts(g, nexts, i + 1, dfs(g, nexts[i], st, fuel), fuel)

\* DirectedGraph::dfs
dfs(g, current, st, fuel) ==
  IF st.panic \/ st.diverged THEN st
  ELSE IF current \notin DOMAIN st.visited THEN [st EXCEPT !.panic = TRUE]
  ELSE IF st.visited[current] THEN st
  ELSE IF fuel = 0 THEN [st EXCEPT !.diverged = TRUE]
  ELSE LET marked == [st EXCEPT !.visited[current] = TRUE]
           done == DfsNexts(g, g.adj[current], 1, marked, fuel - 1)
       IN  IF done.panic \/ done.diverged THEN done
           ELSE [done EXCEPT !.result = Append(@, current)]

\* for start in 0..self.n { if !visited[start] { self.dfs(start, ..) } }
RECURSIVE PostorderLoop(_, _, _)
PostorderLoop(g, start, st) ==
  IF start >= g.n \/ st.panic \/ st.diverged THEN st
  ELSE PostorderLoop(g, start + 1,
                     IF st.visited[start] THEN st
                     ELSE dfs(g, start, st, MaxDepth))

\* DirectedGraph::postorder; returns the traversal, result is the order.
postorder(g) == PostorderLoop(g, 0, Traversal(g.n))

\* for &u in &self.adj[v] { result.add_edge(u, v); }
RECURSIVE TransposedInner(_, _, _, _)
TransposedInner(result, g, v, i) ==
  IF i > Len(g.adj[v]) THEN result
  ELSE TransposedInner(add_edge(result, g.adj[v][i], v), g, v, i + 1)

\* for v in 0..self.n { .. }
RECURSIVE TransposedOuter(_, _, _)
TransposedOuter(result, g, v) ==
  IF v >= g.n THEN result
  ELSE TransposedOuter(TransposedInner(result, g, v, 1), g, v + 1)

\* DirectedGraph::transposed
transposed(g) == TransposedOuter(DirectedGraph_new(g.n), g, 0)

\* into_iter().rev()
Rev(s) == [i \in 1..Len(s) |-> s[Len(s) + 1 - i]]

\* for start in <order> { if !visited[start] { ..; result.push(single_scc) } }
\* st.result collects the components; each dfs starts from an empty Vec.
RECURSIVE SccLoop(_, _, _, _)
SccLoop(t, order, i, st) ==
  IF i > Len(order) \/ st.panic \/ st.diverged THEN st
  ELSE LET start == order[i]
       IN  IF st.visited[start] THEN SccLoop(t, order, i + 1, st)
           ELSE LET single == dfs(t, start, [st EXCEPT !.result = <<>>],
                                  MaxDepth)
                IN  SccLoop(t, order, i + 1,
                            [single EXCEPT
                               !.result = Append(st.result, single.result)])

\* Faulty variant of find_sccs: the postorder is walked front to back.
find_sccs_not_reversed(g) ==
  LET po == postorder(g)
  IN  IF po.panic \/ po.diverged THEN po
      ELSE SccLoop(transposed(g), po.result, 1, Traversal(g.n))

\* DirectedGraph::find_sccs; returns the traversal, result is the Vec of
\* components.
find_sccs(g) ==
  LET po == postorder(g)
  IN  IF po.panic \/ po.diverged THEN po
      ELSE SccLoop(transposed(g), Rev(po.result), 1, Traversal(g.n))

RECURSIVE EdgesFrom(_, _)
\* The number of edges pushed to the vertices v, v + 1, ..
EdgesFrom(g, v) ==
  IF v >= g.n THEN 0 ELSE Len(g.adj[v]) + EdgesFrom(g, v + 1)

\* let mut g = DirectedGraph::new(size)
InitGraph ==
  /\ kind = "DirectedGraph"
  /\ size \in 0..MaxVertices
  /\ adj = DirectedGraph_new(size).adj
  /\ status = "running"
  /\ NoRangeStructure
  /\ ref = <<>>
  /\ parents = <<>> /\ ranks = <<>>
  /\ modulus = 0 /\ self_value = 0 /\ build = "none"

\* g.add_edge(u, v), between vertices of the graph
AddEdge ==
  \E u \in 0..(size - 1), v \in 0..(size - 1) :
    /\ kind = "DirectedGraph" /\ status = "running"
    /\ EdgesFrom(GraphSelf, 0) < MaxEdges
    /\ adj' = add_edge(GraphSelf, u, v).adj
    /\ UNCHANGED <<kind, alg, size, values, thunks, diff, offset, ref, status,
                   parents, ranks, modulus, self_value, build>>

NextGraph == AddEdge

SpecGraph == InitGraph /\ [][NextGraph]_vars

GraphLive == kind = "DirectedGraph" /\ status = "running"

RECURSIVE ReachFrom(_, _)
\* The vertices reachable from those of S by zero or more edges.
ReachFrom(g, S) ==
  LET T == S \cup {v \in 0..(g.n - 1) :
                     \E u \in S : \E i \in 1..Len(g.adj[u]) : g.adj[u][i] = v}
  IN  IF T = S THEN S ELSE ReachFrom(g, T)

Reaches(g, x, y) == y \in ReachFrom(g, {x})

\* The places <<c, i>> at which vertex x is listed in the components.
PlacesOf(sccs, x) ==
  {p \in (1..Len(sccs)) \X (1..MaxVertices + 1) :
     p[2] <= Len(sccs[p[1]]) /\ sccs[p[1]][p[2]] = x}

\* C20: for every directed graph built by add_edge on n vertices, find_sccs
\* returns a partition of 0..n-1 (each vertex listed exactly once), two
\* vertices share a component exactly when each is reachable from the other,
\* and no edge goes from a later component to an earlier one.
C20_SccsPartitionInTopologicalOrder ==
  GraphLive =>
    LET g == GraphSelf
        r == find_sccs(g)
        sccs == r.result
        V == 0..(size - 1)
        comp == [x \in V |-> (CHOOSE p \in PlacesOf(sccs, x) : TRUE)[1]]
    IN  /\ Returned(r)
        /\ \A c \in 1..Len(sccs) :
             Len(sccs[c]) >= 1 /\ \A i \in 1..Len(sccs[c]) : sccs[c][i] \in V
        /\ \A x \in V : Cardinality(PlacesOf(sccs, x)) = 1
        /\ \A x, y \in V :
             (comp[x] = comp[y]) <=> (Reaches(g, x, y) /\ Reaches(g, y, x))
        /\ \A u \in V : \A i \in 1..Len(adj[u]) :
             comp[u] <= comp[adj[u][i]]

\* A cycle of two or more vertices is one component, another component
\* follows it, and an edge leads from a higher-numbered vertex of the
\* earlier component to the later one.
C20_Witness ==
  /\ GraphLive
  /\ LET sccs == find_sccs(GraphSelf).result
     IN  /\ Len(sccs) >= 2
         /\ Len(sccs[1]) >= 2
         /\ \E i \in 1..Len(sccs[1]) : \E j \in 1..Len(sccs[2]) :
              /\ sccs[1][i] > sccs[2][j]
              /\ \E k \in 1..Len(adj[sccs[1][i]]) :
                   adj[sccs[1][i]][k] = sccs[2][j]

\* --------------------------------------- PrimitiveFenwickTree on its own
\* One accumulator, held in diff, takes point adds at the indices
\* 0..capacity; ref[i] is the group-sum of the values added at index i.
PrimSelf == [tree |-> diff, panic |-> FALSE, diverged |-> FALSE, loops |-> <<>>]

\* let mut p = PrimitiveFenwickTree::new(size)
InitPrimitive ==
  /\ kind = "PrimitiveFenwickTree"
  /\ size \in 0..MaxFenSize
  /\ alg = "Sum"
  /\ diff = PrimitiveFenwickTree_new(size)
  /\ offset = <<>> /\ values = <<>> /\ thunks = <<>>
  /\ ref = [i \in 0..size |-> zero]
  /\ status = "running"
  /\ NoOthers

\* p.add(idx, val) with 0 <= idx <= capacity
PointAdd ==
  \E idx \in 0..size, val \in AddVals :
    LET p == PrimitiveFenwickTree_add(PrimSelf, idx, val)
    IN  /\ kind = "PrimitiveFenwickTree" /\ status = "running"
        /\ Abs(add(ref[idx], val)) <= MaxSum
        /\ ref' = [ref EXCEPT ![idx] = add(@, val)]
        /\ diff' = p.tree
        /\ status' = Outcome(p)
        /\ UNCHANGED <<kind, alg, size, values, thunks, offset, others>>

\* p.sum(idx) with 0 <= idx < capacity: it takes &self.
PrefixSum ==
  \E idx \in 0..(size - 1) :
    LET r == PrimitiveFenwickTree_sum(PrimSelf, idx)
    IN  /\ kind = "PrimitiveFenwickTree" /\ status = "running"
        /\ status' = Outcome(r.p)
        /\ UNCHANGED <<kind, alg, size, values, thunks, diff, offset, ref,
                       others>>

NextPrimitive == PointAdd \/ PrefixSum

SpecPrimitive == InitPrimitive /\ [][NextPrimitive]_vars

PrimLive == kind = "PrimitiveFenwickTree" /\ status = "running"

\* C21: after any sequence of point adds add(i, v) with 0 <= i <= capacity,
\* sum(p) for every 0 <= p < capacity is the group-sum of all v added at
\* indices i <= p; a point add at i = capacity, as FenwickTree::add issues
\* when end = size, returns and modifies no slot.
C21_PrefixSumsOfPointAdds ==
  PrimLive =>
    /\ \A p \in 0..(size - 1) :
         LET r == PrimitiveFenwickTree_sum(PrimSelf, p)
         IN  Returned(r.p) /\ r.ret = RefSum(ref, 0, p + 1)
    /\ \A val \in AddVals :
         LET a == PrimitiveFenwickTree_add(PrimSelf, size, val)
         IN  Returned(a) /\ a.tree = diff
    /\ \A begin \in 0..(size - 1), val \in AddVals :
         LET f == FenwickTree_add(FExec([diff |-> diff, offset |-> diff]),
                                  begin, size, val)
         IN  /\ Returned(f)
             /\ f.diff = PrimitiveFenwickTree_add(PrimSelf, begin, val).tree

\* Values have been added at the first index, at the last index and at
\* i = capacity, and the prefix sums differ from slot to slot.
C21_Witness ==
  /\ PrimLive
  /\ size >= 3
  /\ ref[0] # zero /\ ref[size - 1] # zero /\ ref[size] # zero
  /\ \E p \in 0..(size - 2) :
       PrimitiveFenwickTree_sum(PrimSelf, p).ret
         # PrimitiveFenwickTree_sum(PrimSelf, p + 1).ret
  /\ \E i \in DOMAIN diff : diff[i] # RefSum(ref, i, i + 1)

====
